---- MODULE Spec2Model ----
(***************************************************************************)
(* A model of the X11 socket client of src/main.c: the connection          *)
(* bootstrap (x11_init), the resource-ID allocator (generate_id), the      *)
(* request builders (init_gc, init_window, map_window) and the driver      *)
(* (main).  The environment (kernel, credential file, display server) is   *)
(* the source of nondeterminism: the value every system call returns and   *)
(* the bytes the server sends.                                             *)
(*                                                                         *)
(* A uint32_t is the pair <<hi, lo>> of its 16-bit halves, so that 32-bit  *)
(* wrap-around is modelled at its real width.  The host is little-endian,  *)
(* as the order byte 'l' the handshake sends declares.                     *)
(***************************************************************************)
EXTENDS Integers, Sequences, FiniteSets, TLC

\* ------------------------------------------------------------------------
\* Protocol constants (src/main.c:20-35)

X11_DEFAULT_BORDER == 0
X11_DEFAULT_GROUP == 0
X11_EXPOSURES_NOT_ALLOWED == 0
X11_OPCODE_CREATE_WINDOW == 1
X11_OPCODE_MAP_WINDOW == 8
X11_OPCODE_CREATE_GC == 16

\* sizeof of the packed records (src/main.c:38-94)
SizeofConnectionRequest == 1 + 1 + 2 + 2 + 2 + 2 + 2
SizeofConnectionReplyHeader == 1 + 1 + 2 + 2 + 2
SizeofPixmapFormat == 1 + 1 + 1 + 5
SizeofScreen == 4 + 4 + 4 + 4 + 4 + 2 + 2 + 2 + 2 + 2 + 2 + 4 + 1 + 1 + 1 + 1
\* offsetof(connection_reply_success_body_t, ...)
OffsetofIdBase == 4
OffsetofVendorLen == 4 + 4 + 4 + 4
OffsetofNumPixmapFormats == 4 + 4 + 4 + 4 + 2 + 2 + 1
OffsetofVendorString == 4 + 4 + 4 + 4 + 2 + 2 + 1 + 1 + 1 + 1 + 1 + 1 + 1 + 1 + 4
\* offsetof(screen_t, root_id), offsetof(screen_t, root_visual_id)
OffsetofRootId == 0
OffsetofRootVisualId == 4 + 4 + 4 + 4 + 4 + 2 + 2 + 2 + 2 + 2 + 2

\* sizeof(xauth_cookie), and the capacity in words of the request buffers
XauthBufSize == 4096
GcPacketWords == 4 + 32
WindowPacketWords == 8 + 32
MapPacketWords == 2

\* ------------------------------------------------------------------------
\* 32-bit and 16-bit unsigned arithmetic

TwoTo16 == 2^16

U32(hi, lo) == <<hi, lo>>
Hi(w) == w[1]
Lo(w) == w[2]
ZERO32 == U32(0, 0)

\* A 16-bit value zero-extended to 32 bits.
U32Of16(v) == U32(0, v)

\* value + 1 on a uint32_t: wraps at 2^32.
U32Inc(w) ==
    IF Lo(w) = TwoTo16 - 1
      THEN U32((Hi(w) + 1) % TwoTo16, 0)
      ELSE U32(Hi(w), Lo(w) + 1)

\* value >> 1 on a uint32_t.
U32Shr1(w) == U32(Hi(w) \div 2, (Lo(w) \div 2) + (Hi(w) % 2) * (TwoTo16 \div 2))

\* value & 1 on a uint32_t.
U32And1(w) == Lo(w) % 2

\* a | b on 16-bit values, bit by bit.
RECURSIVE Or16(_, _)
Or16(a, b) ==
    IF a = 0 THEN b
    ELSE IF b = 0 THEN a
    ELSE (IF a % 2 = 1 \/ b % 2 = 1 THEN 1 ELSE 0) + 2 * Or16(a \div 2, b \div 2)

\* a | b on 32-bit values.
U32Or(a, b) == U32(Or16(Hi(a), Hi(b)), Or16(Lo(a), Lo(b)))

\* v << 16 for a uint16_t v: v is promoted to int and the result converted to
\* uint32_t; the bit pattern is v in the high half (for v >= 2^15 this is the
\* compiler's documented two's-complement result).
Shl16(v) == U32(v, 0)

\* The two bytes of a uint16_t in memory (little-endian host).
LE16(v) == <<v % 256, v \div 256>>

\* ------------------------------------------------------------------------
\* Driver arguments (src/main.c:24, 30, 264-267)

X11_GC_GRAPHICS_EXPOSURES == U32(1, 0)      \* 1<<16
X11_CW_BACK_PIXEL == U32(0, 2)              \* 1<<1
BackPixel == U32(255, 255)                  \* 0xff00ff
WindowWidth == 320
WindowHeight == 240

\* "MIT-MAGIC-COOKIE-1\0\0", 20 bytes (ASCII codes)
AuthProtoName ==
    <<77, 73, 84, 45, 77, 65, 71, 73, 67, 45, 67, 79, 79, 75, 73, 69, 45, 49, 0, 0>>

\* ------------------------------------------------------------------------
\* The environment's choices

\* socket() and connect() return values
SocketResults == {-1, 3}
ConnectResults == {-1, 0}
\* fread() counts, and the credential file's contents: byte i of a file of
\* family s is (s + i) % 256
XauthLens == {0, 15, 16, 17, 4096}
XauthSeeds == {0, 200}
XauthByte(seed, i) == (seed + i) % 256
\* what the memory below the credential buffer may hold
StackBytes == {0, 170}
\* the reply header the server sends
SuccessFlags == {0, 1, 2, 255}
ReplyLens == {0, 4, 8, 18, 65535}
\* the fields the client reads through its view of the reply body
IdBases == {U32(0, 0), U32(32, 0), U32(0, 65535), U32(65535, 65535)}
VendorLens == {0, 20, 65535}
NumPixmapFormats == {0, 7, 255}
RootIds == {U32(0, 100), U32(65535, 1)}
VisualIds == {U32(0, 200), U32(0, 33)}
\* what write() / recvfrom() may return for a request of count bytes: all of
\* it, one byte fewer, or -1 (an error)
TransferResults(count) == {count, -1} \cup (IF count > 0 THEN {count - 1} ELSE {})

\* ------------------------------------------------------------------------
\* State

VARIABLES
    pc,                              \* where the process is
    exit_status,                     \* the status exit() was called with
    trace,                           \* the socket transfers attempted so far
    allocated,                       \* the values generate_id has returned
    socket_fd,                       \* state_t
    connection_reply_header,
    connection_reply_success_body,   \* <<>> is NULL, <<b>> points to buffer b
    pixmap_formats,                  \* <<>> is NULL, <<o>> is body + o bytes
    screens,
    next_resource_id,
    graphics_context_id,
    window_id,
    xauth,                           \* xauth_len and the file read
    popcnt_frame                     \* popcnt's value and count

vars == <<pc, exit_status, trace, allocated, socket_fd, connection_reply_header,
          connection_reply_success_body, pixmap_formats, screens,
          next_resource_id, graphics_context_id, window_id, xauth,
          popcnt_frame>>

\* popcnt's frame while no call of popcnt is being followed.
PopcntIdle == [input |-> ZERO32, value |-> ZERO32, count |-> 0,
               iterations |-> 0]

session == <<socket_fd, connection_reply_header, connection_reply_success_body,
             pixmap_formats, screens, next_resource_id, graphics_context_id,
             window_id>>

\* state_t state = {0}
Init ==
    /\ pc = "socket"
    /\ exit_status = 0
    /\ trace = <<>>
    /\ allocated = <<>>
    /\ socket_fd = 0
    /\ connection_reply_header = [success |-> 0, len |-> 0]
    /\ connection_reply_success_body = <<>>
    /\ pixmap_formats = <<>>
    /\ screens = <<>>
    /\ next_resource_id = ZERO32
    /\ graphics_context_id = ZERO32
    /\ window_id = ZERO32
    /\ xauth = [len |-> 0, seed |-> 0]
    /\ popcnt_frame = PopcntIdle

\* ------------------------------------------------------------------------
\* FATAL_ERROR and the transport primitives

\* exit(-1): the status the parent sees is the low 8 bits
FatalExitStatus == (-1) % 256

FATAL_ERROR ==
    /\ pc' = "exited"
    /\ exit_status' = FatalExitStatus

\* A variant that lets a short write pass (write(...) < 0).
WriteMismatch_Short(ret, count) == ret < 0

\* write(fd, buf, count) != count: the ssize_t result is converted to size_t,
\* so -1 becomes a value above every count
WriteMismatch(ret, count) == ret < 0 \/ ret # count

\* recvfrom(fd, buf, count, 0, NULL, NULL) != count
ReadMismatch(ret, count) == ret < 0 \/ ret # count

Transfer(what, op, count, ret, data, args) ==
    [what |-> what, op |-> op, count |-> count, ret |-> ret, data |-> data,
     args |-> args]

\* fatal_write: one write of count bytes from buf; a mismatch is fatal.
fatal_write(what, data, count, args, return_pc) ==
    \E ret \in TransferResults(count) :
        /\ trace' = Append(trace, Transfer(what, "write", count, ret, data, args))
        /\ IF WriteMismatch(ret, count)
             THEN FATAL_ERROR
             ELSE pc' = return_pc /\ UNCHANGED exit_status

\* A variant that sends the whole buffer (sizeof(packet)).
WordsOfPrefix_All(packet, count) == packet

\* The first count bytes of a buffer of 32-bit words.
WordsOfPrefix(packet, count) == SubSeq(packet, 1, count \div 4)

\* A word of a request buffer that was never assigned.
UNINIT == <<>>

\* ------------------------------------------------------------------------
\* x11_init (src/main.c:138-192)

\* socket(AF_UNIX, SOCK_STREAM | SOCK_CLOEXEC, 0)
OpenSocket ==
    /\ pc = "socket"
    /\ \E fd \in SocketResults :
        /\ socket_fd' = fd
        /\ IF fd < 0
             THEN FATAL_ERROR
             ELSE pc' = "connect" /\ UNCHANGED exit_status
    /\ UNCHANGED <<trace, allocated, connection_reply_header,
                   connection_reply_success_body, pixmap_formats, screens,
                   next_resource_id, graphics_context_id, window_id, xauth>>
    /\ UNCHANGED popcnt_frame

\* connect(state->socket_fd, "/tmp/.X11-unix/X0")
Connect ==
    /\ pc = "connect"
    /\ \E rc \in ConnectResults :
        IF rc < 0
          THEN FATAL_ERROR
          ELSE pc' = "fopen" /\ UNCHANGED exit_status
    /\ UNCHANGED <<trace, allocated, session, xauth>>
    /\ UNCHANGED popcnt_frame

\* fopen("/home/andy/.Xauthority", "rb")
OpenXauthority ==
    /\ pc = "fopen"
    /\ \E xauth_file \in BOOLEAN :
        IF ~xauth_file
          THEN FATAL_ERROR
          ELSE pc' = "fread" /\ UNCHANGED exit_status
    /\ UNCHANGED <<trace, allocated, session, xauth>>
    /\ UNCHANGED popcnt_frame

\* A variant that rejects a read too short to hold a cookie (xauth_len < 16).
XauthReadFailed_Short(xauth_len) == xauth_len < 16

\* xauth_len < 0, for the size_t that fread returns
XauthReadFailed(xauth_len) == xauth_len < 0

\* fread(xauth_cookie, 1, sizeof(xauth_cookie), xauth_file), the check, fclose
ReadXauthority ==
    /\ pc = "fread"
    /\ \E xauth_len \in XauthLens, seed \in XauthSeeds :
        /\ xauth_len <= XauthBufSize
        /\ xauth' = [len |-> xauth_len, seed |-> seed]
        /\ IF XauthReadFailed(xauth_len)
             THEN FATAL_ERROR
             ELSE pc' = "send_request" /\ UNCHANGED exit_status
    /\ UNCHANGED <<trace, allocated, session>>
    /\ UNCHANGED popcnt_frame

\* The bytes of the connection_request_t that x11_init fills in.
ConnectionRequestBytes ==
    <<108, 0>> \o LE16(11) \o LE16(0) \o LE16(18) \o LE16(16) \o LE16(0)

\* fatal_write(state->socket_fd, &request, sizeof(connection_request_t))
SendConnectionRequest ==
    /\ pc = "send_request"
    /\ fatal_write("request", ConnectionRequestBytes, SizeofConnectionRequest,
                   <<>>, "send_auth_name")
    /\ UNCHANGED <<allocated, session, xauth>>
    /\ UNCHANGED popcnt_frame

\* fatal_write(state->socket_fd, "MIT-MAGIC-COOKIE-1\0\0", 20)
SendAuthName ==
    /\ pc = "send_auth_name"
    /\ fatal_write("auth_name", AuthProtoName, 20, <<>>, "send_cookie")
    /\ UNCHANGED <<allocated, session, xauth>>
    /\ UNCHANGED popcnt_frame

\* A variant that takes the first 16 bytes of the buffer.
CookieStart_Head(xauth_len) == 0

\* Where the cookie slice starts in xauth_cookie: xauth_len - 16.
CookieStart(xauth_len) == xauth_len - 16

\* The 16 bytes at xauth_cookie + xauth_len - 16; a byte below the buffer is
\* whatever the stack holds there (below).
CookieBytes(xauth_len, seed, below) ==
    [j \in 1..16 |->
        LET i == CookieStart(xauth_len) + (j - 1)
        IN  IF i >= 0 THEN XauthByte(seed, i) ELSE below]

\* fatal_write(state->socket_fd, xauth_cookie + xauth_len - 16, 16); the
\* transfer records where in xauth_cookie the bytes written start.
SendCookie ==
    /\ pc = "send_cookie"
    /\ \E below \in (IF CookieStart(xauth.len) < 0 THEN StackBytes ELSE {0}) :
        fatal_write("cookie", CookieBytes(xauth.len, xauth.seed, below), 16,
                    <<CookieStart(xauth.len)>>, "read_header")
    /\ UNCHANGED <<allocated, session, xauth>>
    /\ UNCHANGED popcnt_frame

\* A variant that takes only the flag 1 for success (success != 1).
ReplyRejected_NotOne(success) == success # 1

\* connection_reply_header.success == 0
ReplyRejected(success) == success = 0

\* fatal_read of the 8-byte reply header, then the success check
ReadReplyHeader ==
    /\ pc = "read_header"
    /\ \E ret \in TransferResults(SizeofConnectionReplyHeader),
          success \in SuccessFlags, len \in ReplyLens :
        /\ trace' = Append(trace, Transfer("reply_header", "read",
                               SizeofConnectionReplyHeader, ret, <<>>, <<>>))
        /\ IF ReadMismatch(ret, SizeofConnectionReplyHeader)
             THEN FATAL_ERROR /\ UNCHANGED connection_reply_header
             ELSE /\ connection_reply_header' = [success |-> success, len |-> len]
                  /\ IF ReplyRejected(success)
                       THEN FATAL_ERROR
                       ELSE pc' = "read_body" /\ UNCHANGED exit_status
    /\ UNCHANGED <<allocated, socket_fd, connection_reply_success_body,
                   pixmap_formats, screens, next_resource_id,
                   graphics_context_id, window_id, xauth>>
    /\ UNCHANGED popcnt_frame

\* state->connection_reply_header.len * 4
BodySize(len) == len * 4

\* A variant that pads the vendor string to a 4-byte boundary.
PixmapFormatsOffset_Padded(vendor_len) ==
    OffsetofVendorString + ((vendor_len + 3) \div 4) * 4

\* vendor_string + vendor_len, as a byte offset into the body
PixmapFormatsOffset(vendor_len) == OffsetofVendorString + vendor_len

\* pixmap_formats + num_pixmap_formats, as a byte offset into the body
ScreensOffset(pixmap_formats_offset, num_pixmap_formats) ==
    pixmap_formats_offset + num_pixmap_formats * SizeofPixmapFormat

\* Whether the n bytes at offset o lie inside a buffer of size bytes.
InBuffer(size, o, n) == o >= 0 /\ o + n <= size

\* Whether the body fields x11_init reads (id_base, vendor_len,
\* num_pixmap_formats) lie inside the body buffer.
PrefixFieldsInBuffer(size) ==
    /\ InBuffer(size, OffsetofIdBase, 4)
    /\ InBuffer(size, OffsetofVendorLen, 2)
    /\ InBuffer(size, OffsetofNumPixmapFormats, 1)

\* A variant that never seeds the counter (it stays 0).
SeedResourceId_Zero(id_base) == ZERO32

\* The seed of the allocator: the id_base read from the body.
SeedResourceId(id_base) == id_base

\* malloc and fatal_read of the body, the two views, and the counter's seed.
\* The buffer b holds what the client reads through its pointers: the prefix
\* fields and the words at screens[0]; where these lie outside the size bytes
\* received, they are whatever memory holds there, and the read may instead
\* end the process with a memory fault.
\* A malloc that returns NULL is covered by the same outcomes: recvfrom
\* into NULL returns -1, and with a size of 0 the reads through NULL fault.
ReadReplyBody ==
    /\ pc = "read_body"
    /\ LET size == BodySize(connection_reply_header.len)
       IN \E ret \in TransferResults(size) :
           /\ trace' = Append(trace, Transfer("reply_body", "read", size, ret,
                                              <<>>, <<>>))
           /\ IF ReadMismatch(ret, size)
                THEN /\ FATAL_ERROR
                     /\ connection_reply_success_body' = <<[size |-> size]>>
                     /\ UNCHANGED <<pixmap_formats, screens, next_resource_id>>
                ELSE \E id_base \in IdBases, vendor_len \in VendorLens,
                        num_pixmap_formats \in NumPixmapFormats,
                        root_id \in RootIds, root_visual_id \in VisualIds :
                    /\ connection_reply_success_body' =
                         <<[size |-> size, id_base |-> id_base,
                            vendor_len |-> vendor_len,
                            num_pixmap_formats |-> num_pixmap_formats,
                            root_id |-> root_id,
                            root_visual_id |-> root_visual_id]>>
                    /\ UNCHANGED exit_status
                    /\ \/ /\ ~PrefixFieldsInBuffer(size)
                          /\ pc' = "crashed"
                          /\ UNCHANGED <<pixmap_formats, screens, next_resource_id>>
                       \/ /\ pixmap_formats' = <<PixmapFormatsOffset(vendor_len)>>
                          /\ screens' =
                               <<ScreensOffset(PixmapFormatsOffset(vendor_len),
                                               num_pixmap_formats)>>
                          /\ next_resource_id' = SeedResourceId(id_base)
                          /\ pc' = "init_gc"
    /\ UNCHANGED <<allocated, socket_fd, connection_reply_header,
                   graphics_context_id, window_id, xauth>>
    /\ UNCHANGED popcnt_frame

\* ------------------------------------------------------------------------
\* generate_id and popcnt (src/main.c:195-207)

\* A variant that increments first (++state->next_resource_id).
GenerateIdReturn_Pre(counter) == U32Inc(counter)

\* return state->next_resource_id++: the value returned ...
GenerateIdReturn(counter) == counter

\* A variant that forgets the increment.
GenerateIdNext_Same(counter) == counter

\* ... and the counter afterwards
GenerateIdNext(counter) == U32Inc(counter)

\* while (value) { count += value & 1; value >>= 1; } return count;
RECURSIVE popcnt(_)
popcnt(value) ==
    IF value = ZERO32 THEN 0 ELSE U32And1(value) + popcnt(U32Shr1(value))

\* The same function one loop iteration at a time. The frame holds the locals
\* value and count, and, for the record, the argument and the number of
\* iterations made.

\* The 16-bit halves the arguments are built from.
PopcntHalves == {0, 1, 5, 2049, 32768, 43690, 65535}

\* uint32_t value
PopcntInputs == {U32(h, l) : h \in PopcntHalves, l \in PopcntHalves}

\* int count = 0
PopcntEntry(v) == [input |-> v, value |-> v, count |-> 0, iterations |-> 0]

\* A variant that counts every bit position it passes.
PopcntStep_CountAll(frame) ==
    [frame EXCEPT !.count = @ + 1,
                  !.value = U32Shr1(@),
                  !.iterations = @ + 1]

\* count += value & 1; value >>= 1
PopcntStep(frame) ==
    [frame EXCEPT !.count = @ + U32And1(frame.value),
                  !.value = U32Shr1(@),
                  !.iterations = @ + 1]

\* A call popcnt(v)
PopcntInit ==
    /\ pc = "popcnt_loop"
    /\ exit_status = 0
    /\ trace = <<>>
    /\ allocated = <<>>
    /\ socket_fd = 0
    /\ connection_reply_header = [success |-> 0, len |-> 0]
    /\ connection_reply_success_body = <<>>
    /\ pixmap_formats = <<>>
    /\ screens = <<>>
    /\ next_resource_id = ZERO32
    /\ graphics_context_id = ZERO32
    /\ window_id = ZERO32
    /\ xauth = [len |-> 0, seed |-> 0]
    /\ \E v \in PopcntInputs : popcnt_frame = PopcntEntry(v)

\* while (value) { ... }
PopcntLoop ==
    /\ pc = "popcnt_loop"
    /\ popcnt_frame.value # ZERO32
    /\ popcnt_frame' = PopcntStep(popcnt_frame)
    /\ UNCHANGED <<pc, exit_status, trace, allocated, session, xauth>>

\* return count
PopcntReturn ==
    /\ pc = "popcnt_loop"
    /\ popcnt_frame.value = ZERO32
    /\ pc' = "popcnt_return"
    /\ UNCHANGED <<exit_status, trace, allocated, session, xauth, popcnt_frame>>

PopcntNext ==
    \/ PopcntLoop
    \/ PopcntReturn

\* The call runs to its return unless the process is stopped.
PopcntSpec == PopcntInit /\ [][PopcntNext]_vars /\ WF_vars(PopcntNext)

\* ------------------------------------------------------------------------
\* init_gc (src/main.c:210-224)

\* uint16_t flag_count = popcnt(value_mask)
FlagCount(value_mask) == popcnt(value_mask) % TwoTo16

\* A variant that counts one header word too few.
GcLen_Short(flag_count) == (3 + flag_count) % TwoTo16

\* uint16_t len = 4 + flag_count
GcLen(flag_count) == (4 + flag_count) % TwoTo16

\* uint32_t packet[4 + 32] as init_gc fills it
GcPacket(id, root_id, value_mask, value_list) ==
    LET flag_count == FlagCount(value_mask)
        len == GcLen(flag_count)
    IN  [j \in 1..GcPacketWords |->
            IF j = 1 THEN U32Or(U32Of16(X11_OPCODE_CREATE_GC), Shl16(len))
            ELSE IF j = 2 THEN id
            ELSE IF j = 3 THEN root_id
            ELSE IF j = 4 THEN value_mask
            ELSE IF j - 4 <= flag_count THEN value_list[j - 4]
            ELSE UNINIT]

\* Whether screens[0].root_id lies inside the body buffer.
RootIdInBuffer ==
    InBuffer(connection_reply_success_body[1].size,
             screens[1] + OffsetofRootId, 4)

\* Whether screens[0].root_visual_id lies inside the body buffer.
RootVisualIdInBuffer ==
    InBuffer(connection_reply_success_body[1].size,
             screens[1] + OffsetofRootVisualId, 4)

\* init_gc(state, value_mask, value_list).  The read of screens[0].root_id
\* outside the buffer may end the process with a memory fault.
init_gc(value_mask, value_list, return_pc) ==
    LET id == GenerateIdReturn(next_resource_id)
        len == GcLen(FlagCount(value_mask))
        packet == GcPacket(id, connection_reply_success_body[1].root_id,
                           value_mask, value_list)
    IN  /\ next_resource_id' = GenerateIdNext(next_resource_id)
        /\ allocated' = Append(allocated, id)
        /\ graphics_context_id' = id
        /\ \/ /\ ~RootIdInBuffer
              /\ pc' = "crashed"
              /\ UNCHANGED <<trace, exit_status>>
           \/ fatal_write("create_gc", WordsOfPrefix(packet, len * 4), len * 4,
                          <<value_mask, value_list>>, return_pc)
        /\ UNCHANGED <<socket_fd, connection_reply_header,
                       connection_reply_success_body, pixmap_formats, screens,
                       window_id, xauth>>

\* ------------------------------------------------------------------------
\* init_window and map_window (src/main.c:227-258)

\* A variant with the header length of init_gc (4 + flag_count).
WindowLen_Gc(flag_count) == (4 + flag_count) % TwoTo16

\* uint16_t len = 8 + flag_count
WindowLen(flag_count) == (8 + flag_count) % TwoTo16

\* A variant with the halves exchanged: (x<<16) | y.
Pack16_Swapped(low, high) == U32Or(U32Of16(high), Shl16(low))

\* x | (y<<16) for two uint16_t
Pack16(low, high) == U32Or(U32Of16(low), Shl16(high))

\* uint32_t packet[8 + 32] as init_window fills it
WindowPacket(id, x, y, w, h, window_parent, visual, value_mask, value_list) ==
    LET flag_count == FlagCount(value_mask)
        len == WindowLen(flag_count)
    IN  [j \in 1..WindowPacketWords |->
            IF j = 1 THEN U32Or(U32Of16(X11_OPCODE_CREATE_WINDOW), Shl16(len))
            ELSE IF j = 2 THEN id
            ELSE IF j = 3 THEN window_parent
            ELSE IF j = 4 THEN Pack16(x, y)
            ELSE IF j = 5 THEN Pack16(w, h)
            ELSE IF j = 6 THEN Pack16(X11_DEFAULT_GROUP, X11_DEFAULT_BORDER)
            ELSE IF j = 7 THEN visual
            ELSE IF j = 8 THEN value_mask
            ELSE IF j - 8 <= flag_count THEN value_list[j - 8]
            ELSE UNINIT]

\* init_window(state, x, y, w, h, window_parent, visual, value_mask, value_list)
init_window(x, y, w, h, window_parent, visual, value_mask, value_list, return_pc) ==
    LET id == GenerateIdReturn(next_resource_id)
        len == WindowLen(FlagCount(value_mask))
        packet == WindowPacket(id, x, y, w, h, window_parent, visual,
                               value_mask, value_list)
    IN  /\ next_resource_id' = GenerateIdNext(next_resource_id)
        /\ allocated' = Append(allocated, id)
        /\ window_id' = id
        /\ fatal_write("create_window", WordsOfPrefix(packet, len * 4), len * 4,
                       <<x, y, w, h, window_parent, visual, value_mask,
                         value_list>>, return_pc)
        /\ UNCHANGED <<socket_fd, connection_reply_header,
                       connection_reply_success_body, pixmap_formats, screens,
                       graphics_context_id, xauth>>

\* A variant that names the graphics context instead of the window.
MapPacket_Gc(id) ==
    <<U32Or(U32Of16(X11_OPCODE_MAP_WINDOW), Shl16(MapPacketWords)),
      graphics_context_id>>

\* uint32_t packet[len] as map_window fills it
MapPacket(id) ==
    <<U32Or(U32Of16(X11_OPCODE_MAP_WINDOW), Shl16(MapPacketWords)), id>>

\* A variant that waits for an acknowledgment after the request.
map_window_Ack(return_pc) ==
    /\ trace' = trace \o
          << Transfer("map_window", "write", 8, 8,
                      WordsOfPrefix(MapPacket(window_id), 8), <<>>),
             Transfer("map_window", "read", 32, 32, <<>>, <<>>) >>
    /\ pc' = return_pc
    /\ UNCHANGED <<exit_status, allocated, session, xauth>>

\* map_window(state)
map_window(return_pc) ==
    /\ fatal_write("map_window", WordsOfPrefix(MapPacket(window_id), 8), 8,
                   <<>>, return_pc)
    /\ UNCHANGED <<allocated, session, xauth>>

\* ------------------------------------------------------------------------
\* main (src/main.c:261-271)

\* init_gc(&state, X11_GC_GRAPHICS_EXPOSURES, {X11_EXPOSURES_NOT_ALLOWED})
MainInitGc ==
    /\ pc = "init_gc"
    /\ init_gc(X11_GC_GRAPHICS_EXPOSURES, <<U32Of16(X11_EXPOSURES_NOT_ALLOWED)>>,
               "init_window")
    /\ UNCHANGED popcnt_frame

\* init_window(&state, 0, 0, 320, 240, state.screens[0].root_id,
\*             state.screens[0].root_visual_id, X11_CW_BACK_PIXEL, {0xff00ff});
\* the arguments are read from screens[0] before the call.
MainInitWindow ==
    /\ pc = "init_window"
    /\ \/ /\ ~(RootIdInBuffer /\ RootVisualIdInBuffer)
          /\ pc' = "crashed"
          /\ UNCHANGED <<exit_status, trace, allocated, session, xauth>>
       \/ init_window(0, 0, WindowWidth, WindowHeight,
                      connection_reply_success_body[1].root_id,
                      connection_reply_success_body[1].root_visual_id,
                      X11_CW_BACK_PIXEL, <<BackPixel>>, "map_window")
    /\ UNCHANGED popcnt_frame

\* map_window(&state)
MainMapWindow ==
    /\ pc = "map_window"
    /\ map_window("idle")
    /\ UNCHANGED popcnt_frame

\* Where one pass of while (1) sleep(1) leaves the process.
AfterSleep == "idle"

\* while (1) sleep(1)
Sleep ==
    /\ pc = "idle"
    /\ pc' = AfterSleep
    /\ UNCHANGED <<exit_status, trace, allocated, session, xauth>>
    /\ UNCHANGED popcnt_frame

X11Init ==
    \/ OpenSocket
    \/ Connect
    \/ OpenXauthority
    \/ ReadXauthority
    \/ SendConnectionRequest
    \/ SendAuthName
    \/ SendCookie
    \/ ReadReplyHeader
    \/ ReadReplyBody

Next ==
    \/ X11Init
    \/ MainInitGc
    \/ MainInitWindow
    \/ MainMapWindow
    \/ Sleep

Spec == Init /\ [][Next]_vars

\* ------------------------------------------------------------------------
\* The request builders called with arbitrary arguments.  x11_init, init_gc,
\* init_window and map_window have external linkage; ApiSpec starts where a
\* successful x11_init returns and lets a caller invoke the three builders in
\* any order, each with a value list as long as its mask has bits.

\* How many calls a caller makes.
MaxCalls == 3

\* A value list of k words, word i being U32(seed, i).
ValueList(seed, k) == [i \in 1..k |-> U32(seed, i)]

\* <<value_mask, seed of the value list>>
GcCalls ==
    { <<ZERO32, 0>>, <<X11_GC_GRAPHICS_EXPOSURES, 0>>, <<U32(0, 5), 7>>,
      <<U32(32768, 2049), 255>>, <<U32(65535, 65535), 9>> }

\* <<x, y, w, h, window_parent, visual, value_mask, seed of the value list>>
WindowCalls ==
    { <<0, 0, 320, 240, U32(0, 100), U32(0, 200), X11_CW_BACK_PIXEL, 255>>,
      <<1, 2, 3, 4, U32(65535, 1), U32(0, 33), ZERO32, 0>>,
      <<65535, 32768, 32767, 65535, U32(0, 100), U32(65535, 65535),
        U32(0, 2050), 3>>,
      <<320, 0, 0, 240, U32(7, 7), U32(0, 200), U32(65535, 65535), 1>> }

\* The transfers of a bootstrap in which nothing failed.
BootstrapTrace(cookie, len) ==
    << Transfer("request", "write", SizeofConnectionRequest,
                SizeofConnectionRequest, ConnectionRequestBytes, <<>>),
       Transfer("auth_name", "write", 20, 20, AuthProtoName, <<>>),
       Transfer("cookie", "write", 16, 16, cookie, <<CookieStart(16)>>),
       Transfer("reply_header", "read", SizeofConnectionReplyHeader,
                SizeofConnectionReplyHeader, <<>>, <<>>),
       Transfer("reply_body", "read", BodySize(len), BodySize(len), <<>>, <<>>) >>

\* The states in which a successful x11_init returns (one credential file).
ApiInit ==
    /\ pc = "api"
    /\ exit_status = 0
    /\ allocated = <<>>
    /\ socket_fd = 3
    /\ xauth = [len |-> 16, seed |-> 0]
    /\ popcnt_frame = PopcntIdle
    /\ graphics_context_id = ZERO32
    /\ window_id = ZERO32
    /\ \E len \in {18}, id_base \in IdBases, vendor_len \in VendorLens,
          root_id \in {U32(0, 100)} :
        /\ connection_reply_header = [success |-> 1, len |-> len]
        /\ connection_reply_success_body =
             <<[size |-> BodySize(len), id_base |-> id_base,
                vendor_len |-> vendor_len, num_pixmap_formats |-> 0,
                root_id |-> root_id, root_visual_id |-> U32(0, 200)]>>
        /\ pixmap_formats = <<PixmapFormatsOffset(vendor_len)>>
        /\ screens = <<ScreensOffset(PixmapFormatsOffset(vendor_len), 0)>>
        /\ next_resource_id = SeedResourceId(id_base)
        /\ trace = BootstrapTrace(CookieBytes(16, 0, 0), len)

\* The calls made since x11_init returned.
CallsMade == Len(allocated) + Cardinality({i \in 1..Len(trace) :
                                              trace[i].what = "map_window"})

CallInitGc ==
    /\ pc = "api"
    /\ CallsMade < MaxCalls
    /\ \E c \in GcCalls :
        init_gc(c[1], ValueList(c[2], popcnt(c[1])), "api")
    /\ UNCHANGED popcnt_frame

CallInitWindow ==
    /\ pc = "api"
    /\ CallsMade < MaxCalls
    /\ \E c \in WindowCalls :
        init_window(c[1], c[2], c[3], c[4], c[5], c[6], c[7],
                    ValueList(c[8], popcnt(c[7])), "api")
    /\ UNCHANGED popcnt_frame

CallMapWindow ==
    /\ pc = "api"
    /\ CallsMade < MaxCalls
    /\ map_window("api")
    /\ UNCHANGED popcnt_frame

ApiNext ==
    \/ CallInitGc
    \/ CallInitWindow
    \/ CallMapWindow

ApiSpec == ApiInit /\ [][ApiNext]_vars

\* ========================================================================
\* Properties

\* Whether every transfer so far moved exactly the bytes asked for.
NoTransferFailed == \A i \in 1..Len(trace) : trace[i].ret = trace[i].count

\* w + n modulo 2^32, for a small n >= 0, by arithmetic on the halves.
U32Plus(w, n) ==
    LET lo == Lo(w) + n
    IN  U32((Hi(w) + (lo \div TwoTo16)) % TwoTo16, lo % TwoTo16)

\* The low byte of a word.
LowByte(w) == Lo(w) % 256

\* The body the client holds, once it has read one.
Body == connection_reply_success_body[1]

\* Whether transfer i of the run is the i-th step of the sequence the driver
\* is described to perform, the handshake header being header_size bytes.
ExpectedTransfer(i, header_size) ==
    LET t == trace[i]
    IN  CASE i = 1 -> t.op = "write" /\ t.count = header_size
          [] i = 2 -> t.op = "write" /\ t.count = 20
          [] i = 3 -> t.op = "write" /\ t.count = 16
          [] i = 4 -> t.op = "read" /\ t.count = 8
          [] i = 5 -> t.op = "read" /\ t.count = connection_reply_header.len * 4
          [] i = 6 -> /\ t.op = "write"
                      /\ LowByte(t.data[1]) = 16
                      /\ t.data[2] = Body.id_base
                      /\ t.data[3] = Body.root_id
          [] i = 7 -> /\ t.op = "write"
                      /\ LowByte(t.data[1]) = 1
                      /\ t.data[2] = U32Plus(Body.id_base, 1)
                      /\ t.data[3] = Body.root_id
                      /\ t.data[4] = U32(0, 0)
                      /\ t.data[5] = U32(240, 320)
                      /\ t.data[7] = Body.root_visual_id
          [] i = 8 -> /\ t.op = "write"
                      /\ LowByte(t.data[1]) = 8
                      /\ t.data[2] = U32Plus(Body.id_base, 1)
          [] OTHER -> FALSE

\* The driver's traffic up to now is the start of the described sequence, and
\* all of it once the client idles.
TrafficIsSequence(header_size) ==
    /\ \A i \in 1..Len(trace) : ExpectedTransfer(i, header_size)
    /\ pc = "idle" => Len(trace) = 8 /\ NoTransferFailed

\* C1 as stated: in a run without a failed transfer and with a non-zero
\* success flag the traffic is: an 8-byte handshake header, the 20-byte name,
\* the 16-byte cookie, the 8-byte reply header, the body, create-GC (ID
\* id_base, drawable root), create-window (ID id_base+1, parent root, root
\* visual, 0,0,320,240), map-window (ID id_base+1); nothing after it.
C1_Original == TrafficIsSequence(8)

\* C1, amended: the same sequence with a 12-byte handshake header (IDs modulo
\* 2^32): the traffic is at every moment an initial part of it, and the whole
\* of it, with no failed transfer, whenever the client is in the idle loop.
C1_Traffic == TrafficIsSequence(12)

\* A run in which nothing failed, whose IDs wrap, and that reached the idle loop.
C1_Witness ==
    /\ pc = "idle"
    /\ Len(trace) = 8
    /\ Body.id_base = U32(65535, 65535)
    /\ trace[8].data[2] = ZERO32

\* C2: a transfer that reports a count other than the one requested is the
\* last transfer of the run, and the process has exited with a non-zero status.
C2_FatalOnMismatch ==
    \A i \in 1..Len(trace) :
        trace[i].ret # trace[i].count =>
            /\ i = Len(trace)
            /\ pc = "exited"
            /\ exit_status # 0

\* The create-window write reported one byte fewer than requested.
C2_Witness ==
    /\ Len(trace) = 7
    /\ trace[7].op = "write"
    /\ trace[7].ret = trace[7].count - 1
    /\ pc = "exited"

\* Whether the 8-byte reply header has been read in full.
HeaderRead == Len(trace) >= 4 /\ trace[4].ret = trace[4].count

\* C3: a reply header read with success flag 0 ends the process with a
\* non-zero status right after that read: no body is allocated or read, the
\* counter is never seeded and no request is written; with any non-zero flag
\* the body is read next.
C3_Rejection ==
    /\ (HeaderRead /\ connection_reply_header.success = 0) =>
            /\ pc = "exited"
            /\ exit_status # 0
            /\ Len(trace) = 4
            /\ connection_reply_success_body = <<>>
            /\ pixmap_formats = <<>> /\ screens = <<>>
            /\ next_resource_id = ZERO32
            /\ allocated = <<>>
    /\ (HeaderRead /\ connection_reply_header.success # 0) =>
            \/ pc = "read_body" /\ Len(trace) = 4
            \/ /\ Len(trace) >= 5
               /\ trace[5].op = "read"
               /\ trace[5].count = connection_reply_header.len * 4
               /\ connection_reply_success_body # <<>>

\* The server rejected the handshake and the process has exited.
C3_Witness ==
    /\ HeaderRead
    /\ connection_reply_header.success = 0
    /\ pc = "exited"

\* w + n as an exact integer, in base 2^16 digits <<2^32s, hi, lo>>.
ExactPlus(w, n) ==
    LET lo == Lo(w) + n
        hi == Hi(w) + (lo \div TwoTo16)
    IN  <<hi \div TwoTo16, hi % TwoTo16, lo % TwoTo16>>

\* Whether no value occurs twice in a sequence.
NoRepeats(seq) ==
    \A i, j \in 1..Len(seq) : i # j => seq[i] # seq[j]

\* C4 as stated: the allocator calls made so far returned B, B+1, ..., B+N-1
\* as integers, B being the id_base of the body, with no repeats.
C4_Original ==
    /\ \A i \in 1..Len(allocated) :
          <<0, Hi(allocated[i]), Lo(allocated[i])>> = ExactPlus(Body.id_base, i - 1)
    /\ NoRepeats(allocated)

\* C4, amended: the i-th allocator call returns (B + i - 1) modulo 2^32, the
\* counter is then (B + i) modulo 2^32, and the values returned do not repeat.
C4_Monotonic ==
    /\ \A i \in 1..Len(allocated) : allocated[i] = U32Plus(Body.id_base, i - 1)
    /\ next_resource_id = U32Plus(Body.id_base, Len(allocated))
    /\ NoRepeats(allocated)

\* Three calls from the base 0xFFFFFFFF: the counter wrapped.
C4_Witness ==
    /\ Len(allocated) = 3
    /\ Body.id_base = U32(65535, 65535)
    /\ allocated[2] = ZERO32

\* The handshake of a run that read at least 16 credential bytes: three
\* writes before any read, header_size + 20 + 16 bytes, the header holding
\* order 'l', pad 0, major 11, minor 0, name length 18, data length 16, pad 0,
\* then the scheme name and two zero bytes, then the last 16 bytes read.
HandshakeIs(header_size) ==
    (pc \notin {"socket", "connect", "fopen", "fread"} /\ xauth.len >= 16) =>
        /\ \A i \in 1..Len(trace) : i <= 3 => trace[i].op = "write"
        /\ \A i \in 1..Len(trace) : i > 3 /\ i <= 5 => trace[i].op = "read"
        /\ Len(trace) >= 1 =>
              /\ trace[1].count = header_size
              /\ Len(trace[1].data) = header_size
              /\ trace[1].data[1] = 108 /\ trace[1].data[2] = 0
              /\ SubSeq(trace[1].data, 3, 4) = <<11, 0>>
              /\ SubSeq(trace[1].data, 5, 6) = <<0, 0>>
              /\ SubSeq(trace[1].data, 7, header_size) =
                     SubSeq(<<18, 0, 16, 0, 0, 0>>, 1, header_size - 6)
        /\ Len(trace) >= 2 =>
              /\ trace[2].count = 20
              /\ trace[2].data = <<77, 73, 84, 45, 77, 65, 71, 73, 67, 45,
                                   67, 79, 79, 75, 73, 69, 45, 49, 0, 0>>
        /\ Len(trace) >= 3 =>
              /\ trace[3].count = 16
              /\ trace[3].data =
                     [j \in 1..16 |-> XauthByte(xauth.seed, xauth.len - 17 + j)]
              /\ trace[1].count + trace[2].count + trace[3].count =
                     header_size + 36

\* C5 as stated: the handshake is 44 bytes, its header 8 bytes.
C5_Original == HandshakeIs(8)

\* C5, amended: the handshake is 48 bytes, its header the 12 bytes
\* 'l', 0, 11,0, 0,0, 18,0, 16,0, 0,0.
C5_Handshake == HandshakeIs(12)

\* The whole handshake was sent from a credential file read to 17 bytes.
C5_Witness ==
    /\ Len(trace) >= 3
    /\ xauth = [len |-> 17, seed |-> 200]
    /\ trace[3].ret = 16
    /\ trace[3].data[1] = 201 /\ trace[3].data[16] = 216

\* C6: the body read asks for exactly header.len * 4 bytes; once the views
\* are set, the pixel-format array starts 32 + vendor_len bytes into the body
\* and the screen array num_pixmap_formats * 8 bytes after it; x11_init
\* returns with the counter equal to the body's id_base.
C6_ReplyParsing ==
    /\ Len(trace) >= 5 =>
          trace[5].op = "read" /\ trace[5].count = connection_reply_header.len * 4
    /\ pixmap_formats # <<>> =>
          /\ Len(trace) >= 5 /\ trace[5].ret = trace[5].count
          /\ pixmap_formats[1] = 32 + Body.vendor_len
          /\ screens # <<>>
          /\ screens[1] = pixmap_formats[1] + Body.num_pixmap_formats * 8
    /\ pc = "init_gc" => next_resource_id = Body.id_base

\* x11_init returned with the largest vendor length and format count.
C6_Witness ==
    /\ pc = "init_gc"
    /\ connection_reply_header.len = 65535
    /\ Body.vendor_len = 65535
    /\ Body.num_pixmap_formats = 255
    /\ screens = <<32 + 65535 + 2040>>

\* Bit i of a 16-bit value, and the number of set bits of a 32-bit value.
Bit16(v, i) == (v \div (2^i)) % 2
BitCount(w) ==
    Cardinality({i \in 0..15 : Bit16(Hi(w), i) = 1})
        + Cardinality({i \in 0..15 : Bit16(Lo(w), i) = 1})

\* The transfer a step has added, if it added one of the given kind.
Added(what) ==
    /\ Len(trace') = Len(trace) + 1
    /\ trace'[Len(trace')].what = what

\* C7: the write of init_gc, for mask m and a value list of k = popcount(m)
\* words, is (4 + k) * 4 bytes: word 0 is opcode 16 with 4 + k in the high 16
\* bits, word 1 the ID allocated by this call, word 2 the root window ID of
\* the first screen, word 3 m, words 4..4+k-1 the value list in order; the ID
\* is stored as the session's graphics-context ID.
C7_CreateGc ==
    [][Added("create_gc") =>
        LET t == trace'[Len(trace')]
            m == t.args[1]
            value_list == t.args[2]
            k == BitCount(m)
        IN  /\ Len(value_list) = k
            /\ t.op = "write"
            /\ t.count = (4 + k) * 4
            /\ Len(t.data) = 4 + k
            /\ t.data[1] = U32(4 + k, 16)
            /\ t.data[2] = next_resource_id
            /\ allocated' = Append(allocated, t.data[2])
            /\ t.data[3] = Body.root_id
            /\ t.data[4] = m
            /\ \A i \in 1..k : t.data[4 + i] = value_list[i]
            /\ graphics_context_id' = t.data[2]
    ]_vars

\* A create-GC request with all 32 attributes was written in full.
C7_Witness ==
    \E i \in 1..Len(trace) :
        /\ trace[i].what = "create_gc"
        /\ trace[i].args[1] = U32(65535, 65535)
        /\ trace[i].count = 144
        /\ trace[i].ret = 144
        /\ trace[i].data[36] = U32(9, 32)

\* C8: the write of init_window, for mask m and a value list of
\* k = popcount(m) words, is (8 + k) * 4 bytes: word 0 is opcode 1 with 8 + k
\* in the high 16 bits, word 1 the ID allocated by this call, word 2 the
\* parent, word 3 x (low) and y (high), word 4 width (low) and height (high),
\* word 5 zero, word 6 the visual, word 7 m, words 8..8+k-1 the value list in
\* order; the ID is stored as the session's window ID.
C8_CreateWindow ==
    [][Added("create_window") =>
        LET t == trace'[Len(trace')]
            a == t.args
            m == a[7]
            value_list == a[8]
            k == BitCount(m)
        IN  /\ Len(value_list) = k
            /\ t.op = "write"
            /\ t.count = (8 + k) * 4
            /\ Len(t.data) = 8 + k
            /\ t.data[1] = U32(8 + k, 1)
            /\ t.data[2] = next_resource_id
            /\ allocated' = Append(allocated, t.data[2])
            /\ t.data[3] = a[5]
            /\ t.data[4] = U32(a[2], a[1])
            /\ t.data[5] = U32(a[4], a[3])
            /\ t.data[6] = ZERO32
            /\ t.data[7] = a[6]
            /\ t.data[8] = m
            /\ \A i \in 1..k : t.data[8 + i] = value_list[i]
            /\ window_id' = t.data[2]
    ]_vars

\* A create-window request with y >= 2^15 and two attributes was written.
C8_Witness ==
    \E i \in 1..Len(trace) :
        /\ trace[i].what = "create_window"
        /\ trace[i].args[2] = 32768
        /\ trace[i].count = 40
        /\ trace[i].ret = 40
        /\ trace[i].data[4] = U32(32768, 65535)

\* C9: the write of map_window is 8 bytes, word 0 = 0x00020008 and word 1 the
\* session's window ID; the step reads nothing and changes no field of the
\* session; the ID is the one in word 1 of the create-window request written
\* before it.
C9_MapWindow ==
    [][Added("map_window") =>
        LET t == trace'[Len(trace')]
        IN  /\ t.op = "write"
            /\ t.count = 8
            /\ t.data = <<U32(2, 8), window_id>>
            /\ UNCHANGED <<session, allocated>>
            /\ \E j \in 1..Len(trace) :
                  /\ trace[j].what = "create_window"
                  /\ \A l \in (j + 1)..Len(trace) : trace[l].what # "create_window"
                  /\ trace[j].data[2] = t.data[2]
    ]_vars

\* The map-window request was written for a window ID that had wrapped to 0.
C9_Witness ==
    /\ pc = "idle"
    /\ trace[8].what = "map_window"
    /\ trace[8].ret = 8
    /\ window_id = ZERO32
    /\ graphics_context_id = U32(65535, 65535)

\* C10 as stated: the process stops only by a fatal-error exit with a
\* non-zero status; wherever else it is, it has a next step (a blocking call
\* returns, the idle loop sleeps again), and the idle loop is never left.
C10_Original ==
    /\ pc = "exited" => exit_status # 0
    /\ pc # "exited" => ENABLED Next
    /\ pc = "idle" => ~ENABLED (Next /\ pc' # "idle")

\* The positions of the reads in the run's transfers.
ReadPositions == {i \in 1..Len(trace) : trace[i].op = "read"}

\* Whether a transfer is one of the three resource requests.
IsResourceRequest(t) == t.what \in {"create_gc", "create_window", "map_window"}

\* C11: the client reads from the socket at most twice, first 8 bytes (the
\* reply header) and then the reply body; every read comes after the three
\* handshake writes and before the first resource request, and no transfer
\* from the first resource request on is a read.
C11_ReadsOnlyInHandshake ==
    /\ Cardinality(ReadPositions) <= 2
    /\ \A i \in ReadPositions :
          /\ i > 3
          /\ \A j \in 1..3 : trace[j].op = "write" /\ ~IsResourceRequest(trace[j])
          /\ \A j \in 1..(i - 1) : ~IsResourceRequest(trace[j])
          /\ (\A j \in 1..(i - 1) : trace[j].op = "write") => trace[i].count = 8
    /\ \A i \in 1..Len(trace) :
          IsResourceRequest(trace[i]) =>
              \A j \in i..Len(trace) : trace[j].op = "write"

\* Both reads and all three resource requests have been made.
C11_Witness ==
    /\ pc = "idle"
    /\ ReadPositions = {4, 5}
    /\ Cardinality({i \in 1..Len(trace) : IsResourceRequest(trace[i])}) = 3

\* C12: once the credential file is open, whatever count the read returns the
\* process does not exit there but goes on to send the handshake; and the 16
\* bytes written as the cookie start xauth_len - 16 bytes into the 4096-byte
\* buffer, which is before its beginning exactly when fewer than 16 bytes
\* were read.
C12_ShortReadAccepted ==
    [][ /\ pc = "fread" =>
              /\ pc' = "send_request"
              /\ exit_status' = exit_status
              /\ xauth'.len \in 0..4096
        /\ Added("cookie") =>
              LET start == trace'[Len(trace')].args[1]
              IN  /\ pc = "send_cookie"
                  /\ start = xauth.len - 16
                  /\ start + 16 <= 4096
                  /\ (start < 0) <=> (xauth.len < 16)
    ]_vars

\* An empty credential read went on to a cookie taken from below the buffer.
C12_Witness ==
    /\ xauth.len = 0
    /\ Len(trace) >= 4
    /\ trace[3].what = "cookie"
    /\ trace[3].args = <<-16>>
    /\ trace[3].ret = 16

\* The create-GC transfers of the run.
CreateGcTransfers == {i \in 1..Len(trace) : trace[i].what = "create_gc"}

\* What init_gc transmits is length * 4 bytes, length being the value in the
\* high 16 bits of word 0, and at most / fewer than the words of its buffer.
GcPrefixBelow(limit_words) ==
    \A i \in CreateGcTransfers :
        /\ trace[i].count = Hi(trace[i].data[1]) * 4
        /\ Len(trace[i].data) * 4 = trace[i].count
        /\ Len(trace[i].data) < limit_words

\* C13 as stated: for every mask init_gc sends length * 4 bytes, always
\* strictly fewer than the 36 words of its buffer.
C13_Original == GcPrefixBelow(36)

\* C13, amended: for every mask init_gc sends length * 4 bytes, never more
\* than the 36 words of its buffer, and all 36 exactly when all 32 bits of the
\* mask are set.
C13_PrefixWithinBuffer ==
    /\ GcPrefixBelow(37)
    /\ \A i \in CreateGcTransfers :
          (Len(trace[i].data) = 36) <=> (trace[i].args[1] = U32(65535, 65535))

\* Both a full-buffer request and a shorter one were sent.
C13_Witness ==
    /\ \E i \in CreateGcTransfers : trace[i].count = 36 * 4
    /\ \E i \in CreateGcTransfers : trace[i].count = 4 * 4

\* Whether x11_init has returned (the views are set).
Bootstrapped == pixmap_formats # <<>> /\ screens # <<>>

\* C14 as stated: once x11_init has returned, the pixel-format array and the
\* first screen descriptor (from the screen offset up to and including its
\* root_id and root_visual_id) lie inside the header.len * 4 bytes of the
\* reply-body buffer.
C14_Original ==
    Bootstrapped =>
        LET size == connection_reply_header.len * 4
        IN  /\ Body.size = size
            /\ pixmap_formats[1] >= 0
            /\ pixmap_formats[1] + Body.num_pixmap_formats * 8 <= size
            /\ screens[1] >= pixmap_formats[1]
            /\ screens[1] + 24 <= size
            /\ screens[1] + 0 + 4 <= size
            /\ screens[1] + 32 + 4 <= size

\* Whether a request of header_words + popcount(mask) words, built in a buffer
\* of capacity words, was transmitted from inside the buffer: the length is
\* within the capacity and is the value of the 16-bit length field, and every
\* word sent is one the builder assigned.
RequestWithinBuffer(t, mask, header_words, capacity) ==
    LET len == header_words + BitCount(mask)
    IN  /\ len <= capacity
        /\ len < 2^16
        /\ Hi(t.data[1]) = len
        /\ t.count = len * 4
        /\ t.count <= capacity * 4
        /\ Len(t.data) = len
        /\ \A j \in 1..Len(t.data) : t.data[j] # <<>>

\* C15: for every mask the length init_gc computes (4 + popcount) is at most
\* 36 words and the length init_window computes (8 + popcount) at most 40, so
\* the words written and the prefix transmitted lie inside the buffer, and the
\* length is held by the 16-bit length field without truncation.
C15_LengthWithinCapacity ==
    \A i \in 1..Len(trace) :
        /\ trace[i].what = "create_gc" =>
              RequestWithinBuffer(trace[i], trace[i].args[1], 4, 36)
        /\ trace[i].what = "create_window" =>
              RequestWithinBuffer(trace[i], trace[i].args[7], 8, 40)

\* Both builders were called with all 32 bits of the mask set.
C15_Witness ==
    /\ \E i \in 1..Len(trace) :
          trace[i].what = "create_gc" /\ Len(trace[i].data) = 36
    /\ \E i \in 1..Len(trace) :
          trace[i].what = "create_window" /\ Len(trace[i].data) = 40

\* C16: once x11_init has returned, the counter is id_base plus the number of
\* allocator calls made (modulo 2^32); the ID a written request carries in
\* word 1 is one the allocator has returned; the graphics-context ID and the
\* window ID are the first and second value allocated and differ; and the ID
\* of a request is in the session's field whether or not its write succeeded.
C16_IdBookkeeping ==
    Bootstrapped =>
        /\ next_resource_id = U32Plus(Body.id_base, Len(allocated))
        /\ \A i \in 1..Len(trace) :
              IsResourceRequest(trace[i]) =>
                  \E j \in 1..Len(allocated) : allocated[j] = trace[i].data[2]
        /\ Len(allocated) >= 1 => graphics_context_id = allocated[1]
        /\ Len(allocated) >= 2 =>
              /\ window_id = allocated[2]
              /\ graphics_context_id # window_id
        /\ \A i \in 1..Len(trace) :
              /\ trace[i].what = "create_gc" =>
                    graphics_context_id = trace[i].data[2]
              /\ trace[i].what = "create_window" =>
                    window_id = trace[i].data[2]

\* The create-window write failed with the window ID already recorded.
C16_Witness ==
    /\ pc = "exited"
    /\ Len(trace) = 7
    /\ trace[7].what = "create_window"
    /\ trace[7].ret = -1
    /\ window_id = trace[7].data[2]
    /\ window_id = U32(1, 0)
    /\ next_resource_id = U32(1, 1)

\* C17: popcnt makes at most 32 loop iterations for any 32-bit argument,
\* returns, and returns the number of set bits of the argument, a value in
\* 0..32: 0 for 0, 1 for 1, 2 for 0b101 and 32 for 0xFFFFFFFF.
C17_Popcnt ==
    /\ [](pc \in {"popcnt_loop", "popcnt_return"} =>
            /\ popcnt_frame.iterations <= 32
            /\ popcnt_frame.count + BitCount(popcnt_frame.value)
                  = BitCount(popcnt_frame.input)
            /\ pc = "popcnt_return" =>
                  /\ popcnt_frame.count = BitCount(popcnt_frame.input)
                  /\ popcnt_frame.count = popcnt(popcnt_frame.input)
                  /\ popcnt_frame.count \in 0..32
                  /\ popcnt_frame.input = U32(0, 0) => popcnt_frame.count = 0
                  /\ popcnt_frame.input = U32(0, 1) => popcnt_frame.count = 1
                  /\ popcnt_frame.input = U32(0, 5) => popcnt_frame.count = 2
                  /\ popcnt_frame.input = U32(65535, 65535) =>
                        popcnt_frame.count = 32)
    /\ <>(pc = "popcnt_return")

\* popcnt(0xFFFFFFFF) has returned 32 after 32 iterations.
C17_Witness ==
    /\ pc = "popcnt_return"
    /\ popcnt_frame.input = U32(65535, 65535)
    /\ popcnt_frame.iterations = 32
    /\ popcnt_frame.count = 32

====
